---- MODULE Spec2Model ----
(***************************************************************************)
(* The front end of the orange language: Lexer::tokenize (src/lexer.rs)    *)
(* and the recursive-descent Parser (src/parser.rs), as one state machine. *)
(* Source text is a sequence of characters (one-character strings); the    *)
(* parser's call stack is an explicit sequence of frames.                  *)
(***************************************************************************)
EXTENDS Integers, Sequences, FiniteSets, TLC

VARIABLES
    phase,      \* "tokenize" | "tokenized" | "constructed" | "parsing" | "parsed" | "abort"
    lexer,      \* Lexer { tokens, source, row, col }
    iter,       \* number of characters the Peekable<Chars> iterator has yielded
    parser,     \* Parser { tokens, current_index }
    stack,      \* the parser's call stack, innermost frame last
    ret,        \* the value returned by the call that returned last
    output,     \* what dbg!(stmts) of Parser::program printed
    stderr,     \* number of "reached the end of tokens vector" lines printed
    abort       \* why the process aborted: [kind, expected, actual], kind "none" while it has not

vars == <<phase, lexer, iter, parser, stack, ret, output, stderr, abort>>

(***************************************************************************)
(* Bounds of the model.                                                    *)
(***************************************************************************)
MaxLen == 3          \* longest source text enumerated over SourceAlphabet
MaxTokens == 3       \* longest token vector enumerated over TokenAlphabet
StackLimit == 40     \* call depth at which the native stack is exhausted

(***************************************************************************)
(* Option<T>.                                                              *)
(***************************************************************************)
None == <<>>
Some(x) == <<x>>
IsSome(o) == Len(o) = 1
Unwrap(o) == o[1]

Min(a, b) == IF a < b THEN a ELSE b

(***************************************************************************)
(* Characters.  char::is_alphabetic, is_numeric, is_alphanumeric and       *)
(* is_whitespace on the characters of the model.  "U+00B2" stands for the  *)
(* superscript two, a numeric character that is no ASCII digit.            *)
(***************************************************************************)
Letters == {"a", "b", "c", "d", "e", "f", "g", "h", "i", "j", "k", "l", "m",
            "n", "o", "p", "q", "r", "s", "t", "u", "v", "w", "x", "y", "z"}
Digits == {"0", "1", "2", "3", "4", "5", "6", "7", "8", "9"}
OtherNumeric == {"U+00B2"}

IsAlphabetic(c) == c \in Letters
IsNumeric(c) == c \in Digits \cup OtherNumeric
IsAlphanumeric(c) == IsAlphabetic(c) \/ IsNumeric(c)
IsWhitespace(c) == c \in {" ", "\n", "\t"}

(***************************************************************************)
(* Tokens.                                                                 *)
(***************************************************************************)
Token(type, name) == [token_type |-> type, token_name |-> name]

SingleChars == {".", ",", "(", ")", "[", "]", "{", "}", "?", ";",
                "+", "-", "*", "/", "%", "^"}

\* The one-character arms of the match, lexer.rs 158-173.
SingleCharType(c) ==
    CASE c = "." -> "Dot"
      [] c = "," -> "Comma"
      [] c = "(" -> "LeftParenthesis"
      [] c = ")" -> "RightParenthesis"
      [] c = "[" -> "LeftBracket"
      [] c = "]" -> "RightBracket"
      [] c = "{" -> "LeftBrace"
      [] c = "}" -> "RightBrace"
      [] c = "?" -> "QuestionMark"
      [] c = ";" -> "Semicolon"
      [] c = "+" -> "Plus"
      [] c = "-" -> "Minus"
      [] c = "*" -> "Asterisk"
      [] c = "/" -> "Slash"
      [] c = "%" -> "Percent"
      [] c = "^" -> "Caret"

\* The match on the scanned word, lexer.rs 204-217.
WordToken(buffer) ==
    CASE buffer = <<"l", "e", "t">> -> Token("Let", None)
      [] buffer = <<"i", "f">> -> Token("If", None)
      [] buffer = <<"e", "l", "s", "e">> -> Token("Else", None)
      [] buffer = <<"w", "h", "i", "l", "e">> -> Token("While", None)
      [] buffer = <<"d", "o">> -> Token("Do", None)
      [] buffer = <<"i", "n">> -> Token("In", None)
      [] buffer = <<"f", "o", "r">> -> Token("For", None)
      [] buffer = <<"f", "n">> -> Token("Function", None)
      [] buffer = <<"r", "e", "t", "u", "r", "n">> -> Token("Return", None)
      [] buffer = <<"u", "s", "e">> -> Token("Use", None)
      [] buffer \in {<<"t", "r", "u", "e">>, <<"f", "a", "l", "s", "e">>} ->
            Token("Boolean", Some(buffer))
      [] OTHER -> Token("Identifier", Some(buffer))

(***************************************************************************)
(* Lexer::tokenize.  A scan is [src, it, buffer, col]: `it` characters of  *)
(* src have been yielded by the iterator.                                  *)
(***************************************************************************)
push_token(lx, type, name) == [lx EXCEPT !.tokens = Append(@, Token(type, name))]

\* while let Some(cc) = iter.next() { col += 1; if cc != '"' push else break }
RECURSIVE StringLoop(_, _, _, _)
StringLoop(src, it, buffer, col) ==
    IF it >= Len(src)
    THEN [iter |-> it, buffer |-> buffer, col |-> col]
    ELSE LET cc == src[it + 1] IN
         IF cc # "\""
         THEN StringLoop(src, it + 1, Append(buffer, cc), col + 1)
         ELSE [iter |-> it + 1, buffer |-> buffer, col |-> col + 1]

\* while let Some(cc) = iter.peek() { alphanumeric or '_': push, next, col += 1 }
RECURSIVE WordLoop(_, _, _, _)
WordLoop(src, it, buffer, col) ==
    IF it >= Len(src)
    THEN [iter |-> it, buffer |-> buffer, col |-> col]
    ELSE LET cc == src[it + 1] IN
         IF IsAlphanumeric(cc) \/ cc = "_"
         THEN WordLoop(src, it + 1, Append(buffer, cc), col + 1)
         ELSE [iter |-> it, buffer |-> buffer, col |-> col]

\* TakesDot with the seen_dot test forgotten.
TakesDotAlways(cc, seen_dot) == cc = "."

\* The decimal point is taken when no point has been seen in this literal.
TakesDot(cc, seen_dot) == cc = "." /\ ~seen_dot

\* while let Some(&cc) = iter.peek() { digit | first '.': push, next, col += 1 }
RECURSIVE NumberLoop(_, _, _, _, _)
NumberLoop(src, it, buffer, seen_dot, col) ==
    IF it >= Len(src)
    THEN [iter |-> it, buffer |-> buffer, col |-> col]
    ELSE LET cc == src[it + 1] IN
         IF IsNumeric(cc)
         THEN NumberLoop(src, it + 1, Append(buffer, cc), seen_dot, col + 1)
         ELSE IF TakesDot(cc, seen_dot)
         THEN NumberLoop(src, it + 1, Append(buffer, cc), TRUE, col + 1)
         ELSE [iter |-> it, buffer |-> buffer, col |-> col]

\* while let Some(c) = iter.next() { col += 1; if c == '\n' break }
RECURSIVE CommentLoop(_, _, _)
CommentLoop(src, it, col) ==
    IF it >= Len(src)
    THEN [iter |-> it, col |-> col]
    ELSE IF src[it + 1] = "\n"
         THEN [iter |-> it + 1, col |-> col + 1]
         ELSE CommentLoop(src, it + 1, col + 1)

Peek(src, it) == IF it < Len(src) THEN Some(src[it + 1]) ELSE None

\* '!', '=', '>', '<': the two-character form when '=' follows.
CompoundType(c) ==
    CASE c = "!" -> "BangEqual"
      [] c = "=" -> "EqualEqual"
      [] c = ">" -> "GreaterEqual"
      [] c = "<" -> "LessEqual"

SimpleType(c) ==
    CASE c = "!" -> "Bang"
      [] c = "=" -> "Equal"
      [] c = ">" -> "Greater"
      [] c = "<" -> "Less"

\* One iteration of the outer loop: current_char = iter.next(), the match, and
\* the trailing col += 1.  Returns the lexer, the iterator and whether the
\* iteration panicked.
ScanChar(lx, it0) ==
    LET src == lx.source
        c == src[it0 + 1]
        it == it0 + 1
        Done(l, i) == [lexer |-> [l EXCEPT !.col = @ + 1], iter |-> i, panicked |-> FALSE]
    IN
    IF c \in SingleChars
    THEN Done(push_token(lx, SingleCharType(c), None), it)
    ELSE IF c = "\""
    THEN LET r == StringLoop(src, it, <<>>, lx.col) IN
         Done(push_token([lx EXCEPT !.col = r.col], "String", Some(r.buffer)), r.iter)
    ELSE IF IsAlphabetic(c) \/ c = "_"
    THEN LET r == WordLoop(src, it, <<c>>, lx.col) IN
         Done([lx EXCEPT !.col = r.col, !.tokens = Append(@, WordToken(r.buffer))], r.iter)
    ELSE IF IsNumeric(c)
    THEN LET r == NumberLoop(src, it, <<c>>, FALSE, lx.col) IN
         Done(push_token([lx EXCEPT !.col = r.col], "Number", Some(r.buffer)), r.iter)
    ELSE IF c \in {"!", "=", ">", "<"}
    THEN IF Peek(src, it) = Some("=")
         THEN Done([push_token(lx, CompoundType(c), None) EXCEPT !.col = @ + 1], it + 1)
         ELSE Done(push_token(lx, SimpleType(c), None), it)
    ELSE IF IsWhitespace(c)
    THEN IF c = "\n"
         THEN Done([lx EXCEPT !.row = @ + 1, !.col = 0], it)
         ELSE Done(lx, it)
    ELSE IF c \in {"&", "|"}
    THEN IF Peek(src, it) = Some(c)
         \* iter.next() twice: the second character of the operator and the
         \* character after it (None at the end of the text)
         THEN Done(push_token([lx EXCEPT !.col = @ + 2],
                              IF c = "&" THEN "And" ELSE "Or", None),
                   Min(it + 2, Len(src)))
         ELSE Done(lx, it)
    ELSE IF c = "#"
    THEN LET r == CommentLoop(src, it, lx.col) IN
         Done([lx EXCEPT !.row = @ + 1, !.col = 0], r.iter)
    ELSE [lexer |-> lx, iter |-> it, panicked |-> TRUE]

\* PushEOF skipped when there was nothing to scan.
PushEOFUnlessEmpty(lx) == IF lx.source = <<>> THEN lx ELSE push_token(lx, "EOF", None)

\* push_token!(TokenType::EOF, None) after the loop, lexer.rs 330.
PushEOF(lx) == push_token(lx, "EOF", None)

\* Lexer::default with the source read by Lexer::new.
NewLexer(src) == [tokens |-> <<>>, source |-> src, row |-> 1, col |-> 1]

\* The whole of tokenize on a text: whether it returned, and the token vector.
RECURSIVE RunScan(_, _)
RunScan(lx, it) ==
    IF it >= Len(lx.source)
    THEN [ok |-> TRUE, tokens |-> PushEOF(lx).tokens]
    ELSE LET r == ScanChar(lx, it) IN
         IF r.panicked
         THEN [ok |-> FALSE, tokens |-> r.lexer.tokens]
         ELSE RunScan(r.lexer, r.iter)

TokensOf(src) == RunScan(NewLexer(src), 0)

(***************************************************************************)
(* The AST, parser.rs 6-53.                                                *)
(***************************************************************************)
Nil == <<>>

Literal(class, v) == [kind |-> "Literal", class |-> class, value |-> v]
LiteralNumber(v) == Literal("Number", v)
Variable(name) == [kind |-> "Variable", name |-> name]
Grouping(e) == [kind |-> "Grouping", inner |-> e]
Unary(op, rhs) == [kind |-> "Unary", operator |-> op, rhs |-> rhs]
Binary(lhs, op, rhs) == [kind |-> "Binary", lhs |-> lhs, operator |-> op, rhs |-> rhs]

Declaration(name, e) == [kind |-> "Declaration", variable_name |-> name, expression |-> e]
Assignment(name, e) == [kind |-> "Assignment", variable_name |-> name, expression |-> e]
ExpressionStatement(e) == [kind |-> "Expression", expression |-> e]
Loop(type, cond, body) == [kind |-> "Loop", loop_type |-> type, condition |-> cond, body |-> body]

(***************************************************************************)
(* str::parse::<f64> on the lexemes the tokenizer can produce: None unless *)
(* the text is ASCII digits with at most one point and at least one digit; *)
(* the value is num / 10^scale with no trailing fractional zero.           *)
(***************************************************************************)
DigitValue(c) ==
    CASE c = "0" -> 0 [] c = "1" -> 1 [] c = "2" -> 2 [] c = "3" -> 3 [] c = "4" -> 4
      [] c = "5" -> 5 [] c = "6" -> 6 [] c = "7" -> 7 [] c = "8" -> 8 [] c = "9" -> 9

RECURSIVE Normalize(_, _)
Normalize(num, scale) ==
    IF scale > 0 /\ num % 10 = 0 THEN Normalize(num \div 10, scale - 1)
    ELSE [num |-> num, scale |-> scale]

RECURSIVE Decimal(_, _, _, _, _)
Decimal(text, i, num, scale, seen_dot) ==
    IF i > Len(text) THEN Normalize(num, scale)
    ELSE IF text[i] = "." THEN Decimal(text, i + 1, num, scale, TRUE)
    ELSE Decimal(text, i + 1, 10 * num + DigitValue(text[i]),
                 IF seen_dot THEN scale + 1 ELSE scale, seen_dot)

ParseF64(text) ==
    IF /\ \A i \in 1..Len(text) : text[i] \in Digits \cup {"."}
       /\ Cardinality({i \in 1..Len(text) : text[i] = "."}) <= 1
       /\ \E i \in 1..Len(text) : text[i] \in Digits
    THEN Some(Decimal(text, 1, 0, 0, FALSE))
    ELSE None

(***************************************************************************)
(* The parser.  A context is the Parser with the diagnostics printed so    *)
(* far; a frame is one activation of a parsing routine; an outcome is what *)
(* a routine does from its program point to its next call, return or       *)
(* panic.                                                                  *)
(***************************************************************************)
NewParser(tokens) == [tokens |-> tokens, current_index |-> 0]

Frame(fn) == [fn |-> fn, pc |-> "start", expression |-> Nil, operator |-> "",
              name |-> Nil, stmts |-> <<>>]

\* &self.tokens[self.current_index]
current(c) == c.parser.tokens[c.parser.current_index + 1]

\* self.tokens.get(self.current_index + 1)
peek(c) ==
    IF c.parser.current_index + 1 < Len(c.parser.tokens)
    THEN Some(c.parser.tokens[c.parser.current_index + 2])
    ELSE None

\* advance without the peek.
advance_unchecked(c) == [c EXCEPT !.parser.current_index = @ + 1]

\* Parser::advance
advance(c) ==
    IF IsSome(peek(c))
    THEN [c EXCEPT !.parser.current_index = @ + 1]
    ELSE [c EXCEPT !.stderr = @ + 1]

NoAbort == [kind |-> "none", expected |-> "", actual |-> ""]

Call(c, frame, callee) ==
    [act |-> "call", ctx |-> c, frame |-> frame, callee |-> callee,
     value |-> Nil, dbg |-> None, abort |-> NoAbort]
Stay(c, frame) ==
    [act |-> "stay", ctx |-> c, frame |-> frame, callee |-> "",
     value |-> Nil, dbg |-> None, abort |-> NoAbort]
Return(c, value) ==
    [act |-> "return", ctx |-> c, frame |-> Nil, callee |-> "",
     value |-> value, dbg |-> None, abort |-> NoAbort]
Panic(c, kind, expected, actual, dbg) ==
    [act |-> "panic", ctx |-> c, frame |-> Nil, callee |-> "",
     value |-> Nil, dbg |-> dbg,
     abort |-> [kind |-> kind, expected |-> expected, actual |-> actual]]

\* Parser::expect: whether the current token matched, and the context after
\* the advance of a match.
expect(c, token_type) ==
    IF current(c).token_type = token_type
    THEN [ok |-> TRUE, ctx |-> advance(c)]
    ELSE [ok |-> FALSE, ctx |-> c]

\* The panic of a failed expect, parser.rs 107-111.
ExpectPanic(c, token_type) ==
    Panic(c, "expect", token_type, current(c).token_type, None)

\* The panic of Option::unwrap on a token without a lexeme.
UnwrapPanic(c) == Panic(c, "unwrap_none", "", current(c).token_type, None)

\* Parser::program: the while loop, entered at "start" and re-entered at
\* "push" with the statement just parsed.
ProgramStep(f, c, r) ==
    LET stmts == IF f.pc = "push" THEN Append(f.stmts, r) ELSE f.stmts IN
    IF current(c).token_type # "EOF"
    THEN Call(c, [f EXCEPT !.pc = "push", !.stmts = stmts], "statement")
    ELSE [Return(c, Nil) EXCEPT !.dbg = Some(stmts)]

\* The loop of the `for` arm, parser.rs 166-172.
ForBody(f, c, stmts) ==
    IF current(c).token_type # "RightBrace"
    THEN Call(c, [f EXCEPT !.pc = "for_body", !.stmts = stmts], "statement")
    ELSE Panic(c, "explicit_panic", "", "", Some(stmts))

\* The name the Identifier arm gives the Assignment: the lexeme of the token
\* under the cursor once the ';' has been consumed, parser.rs 150.
AssignmentName(c) == current(c).token_name

\* Parser::statement
StatementStep(f, c, r) ==
    LET type == current(c).token_type IN
    CASE f.pc = "start" ->
            (CASE type = "Let" -> Call(c, [f EXCEPT !.pc = "let"], "declaration")
               [] type = "Identifier" -> Call(c, [f EXCEPT !.pc = "assign"], "assignment")
               [] type = "For" -> Call(advance(c), [f EXCEPT !.pc = "for_ident"], "expression")
               [] type = "While" -> Call(advance(c), [f EXCEPT !.pc = "while"], "expression")
               [] OTHER -> Call(c, [f EXCEPT !.pc = "expr"], "expression"))
      [] f.pc = "let" ->
            LET e == expect(c, "Semicolon") IN
            IF e.ok THEN Return(e.ctx, r) ELSE ExpectPanic(c, "Semicolon")
      [] f.pc = "assign" ->
            LET e == expect(c, "Semicolon") IN
            IF ~e.ok THEN ExpectPanic(c, "Semicolon")
            ELSE IF IsSome(AssignmentName(e.ctx))
                 THEN Return(e.ctx, Assignment(Unwrap(AssignmentName(e.ctx)), r))
                 ELSE UnwrapPanic(e.ctx)
      [] f.pc = "for_ident" ->
            LET e == expect(c, "In") IN
            IF e.ok THEN Call(e.ctx, [f EXCEPT !.pc = "for_begin"], "expression")
            ELSE ExpectPanic(c, "In")
      [] f.pc = "for_begin" ->
            LET e == expect(c, "Comma") IN
            IF e.ok THEN Call(e.ctx, [f EXCEPT !.pc = "for_end"], "expression")
            ELSE ExpectPanic(c, "Comma")
      [] f.pc = "for_end" ->
            LET e == expect(c, "LeftBrace") IN
            IF e.ok THEN ForBody(f, e.ctx, f.stmts) ELSE ExpectPanic(c, "LeftBrace")
      [] f.pc = "for_body" -> ForBody(f, c, Append(f.stmts, r))
      [] f.pc = "while" -> Panic(c, "explicit_panic", "", "", None)
      [] f.pc = "expr" ->
            LET e == expect(c, "Semicolon") IN
            IF e.ok THEN Return(e.ctx, ExpressionStatement(r))
            ELSE ExpectPanic(c, "Semicolon")

\* Parser::declaration
DeclarationStep(f, c, r) ==
    CASE f.pc = "start" ->
            LET c1 == advance(c) IN
            IF IsSome(current(c1).token_name)
            THEN Call(c1, [f EXCEPT !.pc = "value", !.name = Unwrap(current(c1).token_name)],
                      "assignment")
            ELSE UnwrapPanic(c1)
      [] f.pc = "value" -> Return(c, Declaration(f.name, r))

\* Parser::assignment
AssignmentStep(f, c, r) ==
    CASE f.pc = "start" ->
            LET e == expect(c, "Identifier") IN
            IF e.ok THEN Stay(e.ctx, [f EXCEPT !.pc = "equal"])
            ELSE ExpectPanic(c, "Identifier")
      [] f.pc = "equal" ->
            LET e == expect(c, "Equal") IN
            IF e.ok THEN Call(e.ctx, [f EXCEPT !.pc = "value"], "expression")
            ELSE ExpectPanic(c, "Equal")
      [] f.pc = "value" -> Return(c, r)

\* Parser::expression
ExpressionStep(f, c, r) ==
    CASE f.pc = "start" -> Call(c, [f EXCEPT !.pc = "value"], "equality")
      [] f.pc = "value" -> Return(c, r)

\* The operators of each binary tier and the routine that parses its operands.
EqualityOps == {"BangEqual", "EqualEqual"}
ComparisonOps == {"Greater", "GreaterEqual", "Less", "LessEqual"}
TermOps == {"Plus", "Minus"}
FactorOps == {"Asterisk", "Slash", "Percent"}

\* The shape equality, comparison, term and factor share: an operand, then
\* while the current token is one of `ops`: the operator, advance, an operand,
\* and the Binary node over what has been parsed so far.
BinaryStep(f, c, r, ops, operand) ==
    CASE f.pc = "start" -> Call(c, [f EXCEPT !.pc = "first"], operand)
      [] f.pc \in {"first", "rhs"} ->
            LET expression == IF f.pc = "first" THEN r
                              ELSE Binary(f.expression, f.operator, r)
            IN
            IF current(c).token_type \in ops
            THEN Call(advance(c),
                      [f EXCEPT !.pc = "rhs", !.expression = expression,
                                !.operator = current(c).token_type],
                      operand)
            ELSE Return(c, expression)

EqualityStep(f, c, r) == BinaryStep(f, c, r, EqualityOps, "comparison")
ComparisonStep(f, c, r) == BinaryStep(f, c, r, ComparisonOps, "term")

TermStep(f, c, r) == BinaryStep(f, c, r, TermOps, "factor")
FactorStep(f, c, r) == BinaryStep(f, c, r, FactorOps, "unary")

\* UnaryStep with the advance over the operator forgotten.
UnaryStepWithoutAdvance(f, c, r) ==
    CASE f.pc = "start" ->
            IF current(c).token_type \in {"Minus", "Bang"}
            THEN Call(c, [f EXCEPT !.pc = "rhs", !.operator = current(c).token_type], "unary")
            ELSE Call(c, [f EXCEPT !.pc = "value"], "primary")
      [] f.pc = "rhs" -> Return(c, Unary(f.operator, r))
      [] f.pc = "value" -> Return(c, r)

\* Parser::unary
UnaryStep(f, c, r) ==
    CASE f.pc = "start" ->
            IF current(c).token_type \in {"Minus", "Bang"}
            THEN Call(advance(c),
                      [f EXCEPT !.pc = "rhs", !.operator = current(c).token_type], "unary")
            ELSE Call(c, [f EXCEPT !.pc = "value"], "primary")
      [] f.pc = "rhs" -> Return(c, Unary(f.operator, r))
      [] f.pc = "value" -> Return(c, r)

\* Parser::primary
PrimaryStep(f, c, r) ==
    LET token == current(c) IN
    CASE f.pc = "start" ->
            (CASE token.token_type = "Number" ->
                    IF ~IsSome(token.token_name) THEN UnwrapPanic(c)
                    ELSE LET value == ParseF64(Unwrap(token.token_name)) IN
                         IF IsSome(value)
                         THEN Return(advance(c), LiteralNumber(Unwrap(value)))
                         ELSE Panic(c, "unwrap_err", "", "Number", None)
               [] token.token_type = "Identifier" ->
                    IF IsSome(token.token_name)
                    THEN Return(advance(c), Variable(Unwrap(token.token_name)))
                    ELSE UnwrapPanic(c)
               [] token.token_type = "LeftParenthesis" ->
                    Call(advance(c), [f EXCEPT !.pc = "close"], "expression")
               [] OTHER -> Panic(c, "primary", "", token.token_type, None))
      [] f.pc = "close" ->
            LET e == expect(c, "RightParenthesis") IN
            IF e.ok THEN Return(e.ctx, Grouping(r))
            ELSE ExpectPanic(c, "RightParenthesis")

(***************************************************************************)
(* The inputs.  A run starts either from a source text handed to the       *)
(* tokenizer (main.rs) or from a token vector handed to Parser::new.       *)
(***************************************************************************)
SeqsUpTo(S, n) == UNION {[1..k -> S] : k \in 0..n}

SourceAlphabet == {"a", "1", ".", ";", "\"", "=", "!", "<", ">", "&", "|", "#", "\n", "@"}

SampleSources == {
    \* the precedence example of the specification
    <<"l", "e", "t", " ", "x", " ", "=", " ", "1", " ", "+", " ", "2", " ", "*", " ", "3", ";">>,
    \* a grouping as the left operand
    <<"(", "1", " ", "+", " ", "2", ")", " ", "*", " ", "3", ";">>,
    \* an expression is missing
    <<"l", "e", "t", " ", "x", " ", "=", " ", ";">>,
    \* a name is missing
    <<"l", "e", "t", " ", "=", " ", "1", ";">>,
    \* everything is missing
    <<"l", "e", "t", " ", ";">>,
    \* one assignment, the last statement
    <<"x", " ", "=", " ", "1", ";">>,
    \* two assignments
    <<"x", " ", "=", " ", "1", ";", " ", "y", " ", "=", " ", "2", ";">>,
    \* an assignment followed by a number
    <<"x", " ", "=", " ", "y", ";", " ", "5", ";">>,
    \* a declaration and an expression statement
    <<"l", "e", "t", " ", "x", " ", "=", " ", "1", ";", " ", "2", ";">>,
    \* a conditioned loop
    <<"w", "h", "i", "l", "e", " ", "x", " ", "{", " ", "}">>,
    \* a ranged loop with an empty body
    <<"f", "o", "r", " ", "i", " ", "i", "n", " ", "1", ",", " ", "3", " ", "{", " ", "}">>,
    \* a ranged loop with a body
    <<"f", "o", "r", " ", "i", " ", "i", "n", " ", "1", ",", " ", "3", " ", "{", " ", "1", ";", " ", "2", ";", " ", "}">>,
    \* a ranged loop never closed
    <<"f", "o", "r", " ", "i", " ", "i", "n", " ", "1", ",", " ", "3", " ", "{", " ", "1", ";">>,
    \* && between names
    <<"a", "&", "&", "b">>,
    \* || between names
    <<"a", "|", "|", "b">>,
    \* two decimal points
    <<"1", ".", "2", ".", "3">>,
    \* an integer
    <<"1", "2", "3">>,
    \* one decimal point
    <<"1", "2", ".", "5">>,
    \* a comment line
    <<"#", " ", "a", " ", "c", "o", "m", "m", "e", "n", "t", "\n", "4", "2", ";">>,
    \* a string statement
    <<"\"", "s", "\"", ";">>,
    \* a boolean statement
    <<"t", "r", "u", "e", ";">>,
    \* a unary chain
    <<"-", "!", "x", ";">>,
    \* a numeric character that is no digit
    <<"U+00B2", ";">>
}

Sources == SeqsUpTo(SourceAlphabet, MaxLen) \cup SampleSources

X == Token("Identifier", Some(<<"x">>))
One == Token("Number", Some(<<"1">>))
T(type) == Token(type, None)

TokenAlphabet == {T("Let"), X, T("Equal"), One, T("Semicolon"), T("Minus"),
                  T("LeftParenthesis"), T("RightParenthesis"), T("EOF")}

\* The single-token operands of the grammar's primary production.
Operands == {One, Token("Identifier", Some(<<"y">>)),
             Token("String", Some(<<"s">>)),
             Token("Boolean", Some(<<"t", "r", "u", "e">>))}

BinaryOps == EqualityOps \cup ComparisonOps \cup TermOps \cup FactorOps

\* let x = a + b * c ;
DeclarationVectors ==
    {<<T("Let"), X, T("Equal"), a, T("Plus"), b, T("Asterisk"), c,
       T("Semicolon"), T("EOF")>> : a, b, c \in Operands}

\* 1 op1 x op2 1 ;
TwoOperatorVectors ==
    {<<One, T(op1), X, T(op2), One, T("Semicolon"), T("EOF")>> : op1, op2 \in BinaryOps}

TokenVectors == SeqsUpTo(TokenAlphabet, MaxTokens) \cup DeclarationVectors
                    \cup TwoOperatorVectors

Init ==
    /\ \/ /\ phase = "tokenize"
          /\ \E src \in Sources : lexer = NewLexer(src)
          /\ parser = NewParser(<<>>)
       \/ /\ phase = "constructed"
          /\ lexer = NewLexer(<<>>)
          /\ \E tokens \in TokenVectors : parser = NewParser(tokens)
    /\ iter = 0
    /\ stack = <<>>
    /\ ret = Nil
    /\ output = <<>>
    /\ stderr = 0
    /\ abort = NoAbort

(***************************************************************************)
(* Lexer::tokenize.                                                        *)
(***************************************************************************)
\* One iteration of `while let Some(current_char) = iter.next()`.
TokenizeChar ==
    /\ phase = "tokenize"
    /\ iter < Len(lexer.source)
    /\ LET r == ScanChar(lexer, iter) IN
       /\ lexer' = r.lexer
       /\ iter' = r.iter
       /\ phase' = IF r.panicked THEN "abort" ELSE "tokenize"
       /\ abort' = IF r.panicked
                   THEN [kind |-> "lexer", expected |-> "", actual |-> lexer.source[iter + 1]]
                   ELSE abort
    /\ UNCHANGED <<parser, stack, ret, output, stderr>>

\* The iterator is exhausted: the end-of-input token, and tokenize returns.
TokenizeEOF ==
    /\ phase = "tokenize"
    /\ iter >= Len(lexer.source)
    /\ lexer' = PushEOF(lexer)
    /\ phase' = "tokenized"
    /\ UNCHANGED <<iter, parser, stack, ret, output, stderr, abort>>

\* main.rs 5: Parser::new(_lexer.tokens)
Construct ==
    /\ phase = "tokenized"
    /\ parser' = NewParser(lexer.tokens)
    /\ phase' = "constructed"
    /\ UNCHANGED <<lexer, iter, stack, ret, output, stderr, abort>>

(***************************************************************************)
(* Parser::parse.                                                          *)
(***************************************************************************)
Parse ==
    /\ phase = "constructed"
    /\ stack' = <<Frame("program")>>
    /\ phase' = "parsing"
    /\ UNCHANGED <<lexer, iter, parser, ret, output, stderr, abort>>

Top == stack[Len(stack)]
Ctx == [parser |-> parser, stderr |-> stderr]

\* The program points from which a routine goes on without reading the
\* current token.
ReadsCurrent(f) ==
    ~ \/ f.fn \in {"declaration", "assignment", "expression", "unary"}
            /\ f.pc \in {"value", "rhs"}
      \/ f.fn = "statement" /\ f.pc = "while"

InBounds == parser.current_index < Len(parser.tokens)

Running(fn) ==
    /\ phase = "parsing"
    /\ Top.fn = fn
    /\ ReadsCurrent(Top) => InBounds

\* The effect of an outcome on the state.
Apply(o) ==
    /\ parser' = o.ctx.parser
    /\ stderr' = o.ctx.stderr
    /\ output' = IF IsSome(o.dbg) THEN Append(output, Unwrap(o.dbg)) ELSE output
    /\ UNCHANGED <<lexer, iter>>
    /\ CASE o.act = "call" /\ Len(stack) < StackLimit ->
              /\ stack' = Append([stack EXCEPT ![Len(stack)] = o.frame], Frame(o.callee))
              /\ UNCHANGED <<phase, ret, abort>>
         [] o.act = "call" /\ Len(stack) >= StackLimit ->
              /\ phase' = "abort"
              /\ abort' = [kind |-> "stack_overflow", expected |-> "", actual |-> ""]
              /\ UNCHANGED <<stack, ret>>
         [] o.act = "stay" ->
              /\ stack' = [stack EXCEPT ![Len(stack)] = o.frame]
              /\ UNCHANGED <<phase, ret, abort>>
         [] o.act = "return" ->
              /\ stack' = SubSeq(stack, 1, Len(stack) - 1)
              /\ ret' = o.value
              /\ phase' = IF Len(stack) = 1 THEN "parsed" ELSE "parsing"
              /\ UNCHANGED abort
         [] o.act = "panic" ->
              /\ phase' = "abort"
              /\ abort' = o.abort
              /\ UNCHANGED <<stack, ret>>

Program == Running("program") /\ Apply(ProgramStep(Top, Ctx, ret))
Statement == Running("statement") /\ Apply(StatementStep(Top, Ctx, ret))
DeclarationCall == Running("declaration") /\ Apply(DeclarationStep(Top, Ctx, ret))
AssignmentCall == Running("assignment") /\ Apply(AssignmentStep(Top, Ctx, ret))
Expression == Running("expression") /\ Apply(ExpressionStep(Top, Ctx, ret))
Equality == Running("equality") /\ Apply(EqualityStep(Top, Ctx, ret))
Comparison == Running("comparison") /\ Apply(ComparisonStep(Top, Ctx, ret))
Term == Running("term") /\ Apply(TermStep(Top, Ctx, ret))
Factor == Running("factor") /\ Apply(FactorStep(Top, Ctx, ret))
UnaryCall == Running("unary") /\ Apply(UnaryStep(Top, Ctx, ret))
Primary == Running("primary") /\ Apply(PrimaryStep(Top, Ctx, ret))

\* self.tokens[self.current_index] with the index out of bounds.
IndexPanic ==
    /\ phase = "parsing"
    /\ ReadsCurrent(Top)
    /\ ~InBounds
    /\ phase' = "abort"
    /\ abort' = [kind |-> "index_out_of_bounds", expected |-> "", actual |-> ""]
    /\ UNCHANGED <<lexer, iter, parser, stack, ret, output, stderr>>

Next ==
    \/ TokenizeChar
    \/ TokenizeEOF
    \/ Construct
    \/ Parse
    \/ Program
    \/ Statement
    \/ DeclarationCall
    \/ AssignmentCall
    \/ Expression
    \/ Equality
    \/ Comparison
    \/ Term
    \/ Factor
    \/ UnaryCall
    \/ Primary
    \/ IndexPanic

Spec == Init /\ [][Next]_vars

\* tokenize and parse are synchronous calls on one thread with no suspension
\* point: a step that can be taken is taken.
FairSpec == Spec /\ WF_vars(Next)

(***************************************************************************)
(* Properties.                                                             *)
(***************************************************************************)
Finished == phase \in {"parsed", "abort"}
Cursor == parser.current_index
Last(seq) == seq[Len(seq)]
Name(text) == Token("Identifier", Some(text))
Number(text) == Token("Number", Some(text))

\* A token vector as the tokenizer ends it: one end-of-input token, the last.
Terminated(tokens) ==
    /\ Len(tokens) >= 1
    /\ Last(tokens).token_type = "EOF"
    /\ \A i \in 1..(Len(tokens) - 1) : tokens[i].token_type # "EOF"

\* The expression the grammar gives a single-token operand.
OperandExpression(token) ==
    CASE token.token_type = "Number" -> LiteralNumber(Unwrap(ParseF64(Unwrap(token.token_name))))
      [] token.token_type = "Identifier" -> Variable(Unwrap(token.token_name))
      [] token.token_type = "String" -> Literal("String", Unwrap(token.token_name))
      [] token.token_type = "Boolean" -> Literal("Boolean", Unwrap(token.token_name))

SimpleOperand(token) == token.token_type \in {"Number", "Identifier"}

\* The number of statements of a program made of the statements
\* `let IDENT = operand ;`, `IDENT = operand ;` and `operand ;` with a NUMBER
\* or IDENT operand, from token i on; -1 when the tokens are no such program.
RECURSIVE SimpleStatements(_, _)
SimpleStatements(tokens, i) ==
    LET type(k) == IF i + k <= Len(tokens) THEN tokens[i + k].token_type ELSE "(none)"
        rest(n) == LET m == SimpleStatements(tokens, i + n) IN
                   IF m < 0 THEN -1 ELSE m + 1
    IN
    IF i = Len(tokens) /\ type(0) = "EOF" THEN 0
    ELSE IF /\ type(0) = "Let" /\ type(1) = "Identifier" /\ type(2) = "Equal"
            /\ type(3) \in {"Number", "Identifier"} /\ type(4) = "Semicolon"
    THEN rest(5)
    ELSE IF /\ type(0) = "Identifier" /\ type(1) = "Equal"
            /\ type(2) \in {"Number", "Identifier"} /\ type(3) = "Semicolon"
    THEN rest(4)
    ELSE IF type(0) \in {"Number", "Identifier"} /\ type(1) = "Semicolon"
    THEN rest(2)
    ELSE -1

\* The token vector is k >= 1 statements `IDENT = operand ;` and end-of-input.
AssignmentList(tokens) ==
    /\ Len(tokens) >= 5
    /\ Len(tokens) % 4 = 1
    /\ Last(tokens).token_type = "EOF"
    /\ \A j \in 0..((Len(tokens) - 1) \div 4 - 1) :
          /\ tokens[4 * j + 1].token_type = "Identifier"
          /\ tokens[4 * j + 2].token_type = "Equal"
          /\ SimpleOperand(tokens[4 * j + 3])
          /\ tokens[4 * j + 4].token_type = "Semicolon"

\* C1: a program of statements `IDENT = operand ;` parses to the end, and its
\* j-th statement is the Assignment whose variable_name is the lexeme of the
\* identifier that starts that statement, the last statement included.
C1_AssignmentNamesItsTarget ==
    (Finished /\ AssignmentList(parser.tokens)) =>
        /\ phase = "parsed"
        /\ Len(output) = 1
        /\ Len(output[1]) = (Len(parser.tokens) - 1) \div 4
        /\ \A j \in 1..Len(output[1]) :
              output[1][j] = Assignment(Unwrap(parser.tokens[4 * j - 3].token_name),
                                        OperandExpression(parser.tokens[4 * j - 1]))

\* C2: when primary starts on a NUMBER, STRING or BOOLEAN token it consumes
\* that one token and returns the Literal of that class; on an IDENT it
\* returns the Variable; on '(' it goes on to the inner expression; none of
\* the five aborts with primary's syntax error.
C2_PrimaryAcceptsEveryLiteral ==
    [][(/\ phase = "parsing"
        /\ Top.fn = "primary"
        /\ Top.pc = "start"
        /\ InBounds
        /\ current(Ctx).token_type \in
              {"Number", "String", "Boolean", "Identifier", "LeftParenthesis"})
       => LET token == current(Ctx) IN
          /\ phase' = "parsing"
          /\ token.token_type # "LeftParenthesis" =>
                /\ stack' = SubSeq(stack, 1, Len(stack) - 1)
                /\ ret' = OperandExpression(token)
                /\ parser'.current_index = Min(Cursor + 1, Len(parser.tokens) - 1)]_vars

WhileProgram == <<T("While"), X, T("LeftBrace"), T("RightBrace"), T("EOF")>>
ForProgram ==
    <<T("For"), Name(<<"i">>), T("In"), One, T("Comma"), Number(<<"3">>), T("LeftBrace"),
      One, T("Semicolon"), Number(<<"2">>), T("Semicolon"), T("RightBrace"), T("EOF")>>

\* C3: `while x { }` and `for i in 1, 3 { 1; 2; }` parse to the end, each to
\* one Loop statement tagged with its form, the condition present for while
\* and absent for for, the body in source order, the cursor past the '}'.
C3_LoopIsReturned ==
    /\ (Finished /\ parser.tokens = WhileProgram) =>
          /\ phase = "parsed"
          /\ output = <<<<Loop("While", Some(Variable(<<"x">>)), <<>>)>>>>
          /\ Cursor = Len(parser.tokens) - 1
    /\ (Finished /\ parser.tokens = ForProgram) =>
          /\ phase = "parsed"
          /\ output = <<<<Loop("For", None,
                               <<ExpressionStatement(OperandExpression(One)),
                                 ExpressionStatement(OperandExpression(Number(<<"2">>)))>>)>>>>
          /\ Cursor = Len(parser.tokens) - 1

\* C4: for all single-token operands a, b, c of the grammar's primary,
\* `let x = a + b * c ;` parses to exactly one Declaration of x whose
\* expression is Binary(a, '+', Binary(b, '*', c)).
C4_MultiplicationBindsTighter ==
    (Finished /\ parser.tokens \in DeclarationVectors) =>
        /\ phase = "parsed"
        /\ output = <<<<Declaration(<<"x">>,
                          Binary(OperandExpression(parser.tokens[4]), "Plus",
                                 Binary(OperandExpression(parser.tokens[6]), "Asterisk",
                                        OperandExpression(parser.tokens[8]))))>>>>

\* The tier of a binary operator: the larger, the tighter.
Tier(op) ==
    CASE op \in EqualityOps -> 1
      [] op \in ComparisonOps -> 2
      [] op \in TermOps -> 3
      [] op \in FactorOps -> 4

\* What the code does for C4 on the operands it accepts: `1 op1 x op2 1 ;`
\* nests the tighter operator under the looser one, and the left one under the
\* right one when the tiers are equal.
PrecedenceOnAcceptedOperands ==
    (Finished /\ parser.tokens \in TwoOperatorVectors) =>
        LET op1 == parser.tokens[2].token_type
            op2 == parser.tokens[4].token_type
            one == OperandExpression(One)
            x == OperandExpression(X)
        IN
        /\ phase = "parsed"
        /\ output = <<<<ExpressionStatement(
                          IF Tier(op2) > Tier(op1)
                          THEN Binary(one, op1, Binary(x, op2, one))
                          ELSE Binary(Binary(one, op1, x), op2, one))>>>>

\* C5: a parse of an end-of-input terminated token vector without 'while' and
\* 'for' aborts only through expect or through primary's syntax error.
C5_EveryRejectionIsDiagnosed ==
    (/\ phase = "abort"
     /\ abort.kind # "lexer"
     /\ Terminated(parser.tokens)
     /\ \A i \in 1..Len(parser.tokens) : parser.tokens[i].token_type \notin {"While", "For"})
    => abort.kind \in {"expect", "primary"}

\* C6: when tokenize returns, the token vector holds exactly one end-of-input
\* token, and it is the last element.
C6_ExactlyOneEOFLast ==
    phase = "tokenized" => Terminated(lexer.tokens)

\* tokenize returned on a text that ends inside an unterminated string.
C6_Witness ==
    /\ phase = "tokenized"
    /\ Len(lexer.source) >= 2
    /\ lexer.source[1] = "\""
    /\ \A i \in 2..Len(lexer.source) : lexer.source[i] # "\""
    /\ Len(lexer.tokens) = 2

TwoCharOperators ==
    {<<"=", "=", "EqualEqual">>, <<"!", "=", "BangEqual">>, <<">", "=", "GreaterEqual">>,
     <<"<", "=", "LessEqual">>, <<"&", "&", "And">>, <<"|", "|", "Or">>}

\* C7: tokenizing a two-character operator followed by a text s yields the
\* operator's one token followed by exactly the tokens of s.
C7_OperatorConsumesTwoCharacters ==
    phase = "tokenized" =>
        \A op \in TwoCharOperators :
            (Len(lexer.source) >= 2 /\ lexer.source[1] = op[1] /\ lexer.source[2] = op[2]) =>
                LET s == TokensOf(SubSeq(lexer.source, 3, Len(lexer.source))) IN
                s.ok => lexer.tokens = <<T(op[3])>> \o s.tokens

Text123 == <<"1", "2", "3">>
Text12p5 == <<"1", "2", ".", "5">>
Text1p2p3 == <<"1", ".", "2", ".", "3">>

\* C8 as stated: `1.2.3` yields the numbers "1.2" and ".3" and end-of-input;
\* `123` and `12.5` yield one number each.
C8_SecondPointStartsANumber ==
    phase = "tokenized" =>
        /\ lexer.source = Text123 => lexer.tokens = <<Number(Text123), T("EOF")>>
        /\ lexer.source = Text12p5 => lexer.tokens = <<Number(Text12p5), T("EOF")>>
        /\ lexer.source = Text1p2p3 =>
              lexer.tokens = <<Number(<<"1", ".", "2">>), Number(<<".", "3">>), T("EOF")>>

Points(text) == {i \in 1..Len(text) : text[i] = "."}

\* A text of ASCII digits and points that starts with a digit.
DigitRun(text) ==
    /\ Len(text) >= 1
    /\ text[1] \in Digits
    /\ \A i \in 1..Len(text) : text[i] \in Digits \cup {"."}

\* C8, amended: a digit run with at most one point is one number token with
\* that text; in a digit run with two points the number token ends before the
\* second point, the second point is a Dot token, and the digits after it, if
\* any, are a number token of their own (`1.2.3`: "1.2", Dot, "3").
C8_SecondPointIsADot ==
    (phase = "tokenized" /\ DigitRun(lexer.source)) =>
        LET text == lexer.source
            n == Len(text)
        IN
        /\ Cardinality(Points(text)) <= 1 => lexer.tokens = <<Number(text), T("EOF")>>
        /\ Cardinality(Points(text)) = 2 =>
              LET q == CHOOSE i \in Points(text) : \A j \in Points(text) : j <= i IN
              lexer.tokens = <<Number(SubSeq(text, 1, q - 1)), T("Dot")>>
                                \o (IF q < n THEN <<Number(SubSeq(text, q + 1, n))>> ELSE <<>>)
                                \o <<T("EOF")>>

\* tokenize returned on `1.2.3`.
C8_Witness ==
    /\ phase = "tokenized"
    /\ lexer.source = Text1p2p3
    /\ Len(lexer.tokens) = 4

\* C9: a program of the statements `let IDENT = operand ;`, `IDENT = operand ;`
\* and `operand ;` parses to the end, to as many statements as the program
\* has, with the cursor on the end-of-input token.
C9_StatementCountAndCursor ==
    (Finished /\ Len(parser.tokens) >= 1 /\ SimpleStatements(parser.tokens, 1) >= 0) =>
        /\ phase = "parsed"
        /\ Len(output) = 1
        /\ Len(output[1]) = SimpleStatements(parser.tokens, 1)
        /\ Cursor = Len(parser.tokens) - 1

\* C10: while a parser over a non-empty token vector exists its cursor is an
\* index of the vector; no step moves it back or by more than one; and a step
\* whose advance finds no next token leaves it where it is, on the last token.
C10_CursorStaysInBounds ==
    /\ []((phase \in {"constructed", "parsing", "parsed", "abort"} /\ Len(parser.tokens) > 0)
            => Cursor \in 0..(Len(parser.tokens) - 1))
    /\ [][parser'.current_index \in {Cursor, Cursor + 1}]_vars
    /\ [][stderr' # stderr =>
            /\ Cursor = Len(parser.tokens) - 1
            /\ parser'.current_index = Cursor]_vars

\* The cursor has moved to the last token and an advance there was a no-op.
C10_Witness ==
    /\ phase = "parsing"
    /\ Len(parser.tokens) > 1
    /\ Cursor = Len(parser.tokens) - 1
    /\ stderr > 0

\* A parser exists over an end-of-input terminated token vector.
TerminatedParse ==
    /\ phase \in {"constructed", "parsing", "parsed", "abort"}
    /\ Terminated(parser.tokens)

\* The frame is a statement loop in an iteration: the top-level loop of
\* program or the body loop of the `for` arm, waiting for its statement or,
\* as the running frame, just handed it.
LoopFrame(f) ==
    \/ f.fn = "program" /\ f.pc = "push"
    \/ f.fn = "statement" /\ f.pc = "for_body"

\* C11: the parse of an end-of-input terminated token vector ends, completed
\* or aborted, and not by exhausting the stack: no advance is a no-op; every
\* statement loop has completed no more iterations than the cursor has moved,
\* the one that has just returned included; and
\* every call of unary by unary is made with the cursor moved on by one.
C11_ParseTerminates ==
    /\ [](TerminatedParse =>
            /\ stderr = 0
            /\ abort.kind # "stack_overflow"
            /\ \A i \in 1..Len(stack) :
                  LoopFrame(stack[i]) =>
                      Len(stack[i].stmts) + (IF i = Len(stack) THEN 1 ELSE 0) <= Cursor)
    /\ [][(/\ TerminatedParse
           /\ phase = "parsing"
           /\ Top.fn = "unary"
           /\ Len(stack') = Len(stack) + 1
           /\ Last(stack').fn = "unary")
          => parser'.current_index = Cursor + 1]_vars
    /\ (phase = "constructed" /\ Terminated(parser.tokens)) ~> Finished

\* The parse of `-!x;` has completed: unary called itself twice and the
\* top-level loop ran once.
C11_Witness ==
    /\ phase = "parsed"
    /\ Terminated(parser.tokens)
    /\ stderr = 0
    /\ output = <<<<ExpressionStatement(Unary("Minus", Unary("Bang", Variable(<<"x">>))))>>>>

====
